---- MODULE Spec2Model ----
(***************************************************************************)
(* Model of disaster_response.py: the rule-based weather risk scorer       *)
(* (WeatherRiskAnalyzer.calculate_risk) and the location aggregator        *)
(* (DisasterResponseSystem) behind the two Flask routes / and /api/alerts. *)
(*                                                                         *)
(* Numbers.  Risk scores are kept in hundredths (0.95 is 95, 0.1 is 10);   *)
(* temperature, wind speed and precipitation are integers, so that         *)
(* wind_speed / 100 and rain / 50 are exact in hundredths.  Coordinates    *)
(* are kept in ten-thousandths of a degree.                                *)
(*                                                                         *)
(* Python dicts are functions with a finite set of string keys; a missing  *)
(* key is a key outside DOMAIN.  Python lists are sequences.  None is the  *)
(* empty sequence and a returned record r is <<r>>.                        *)
(***************************************************************************)
EXTENDS Integers, Sequences, FiniteSets, Bags, TLC

\* ---------------------------------------------------------------- bounds
\* monitored locations taken from the head of the source's list of ten
NumLocations == 2
\* dashboard requests (each calls update_all_locations once) in one run
MaxRefresh == 2

\* ------------------------------------------------------------ dict helpers
EmptyDict == [k \in {} |-> 0]

\* dict.get(k, default)
Get(d, k, default) == IF k \in DOMAIN d THEN d[k] ELSE default

\* the dicts holding at most the key k, with a value of S
Opt(k, S) == {EmptyDict} \cup {k :> v : v \in S}

Min(a, b) == IF a < b THEN a ELSE b

\* --------------------------------------------------- WeatherRiskAnalyzer
weather_risk_weights ==
    [Thunderstorm |-> 90, Tornado |-> 100, Hurricane |-> 100,
     Rain |-> 60, Snow |-> 70, Extreme |-> 80, Drizzle |-> 30,
     Clouds |-> 20, Clear |-> 10] @@ ("Tropical Storm" :> 90)

\* faulty variant of TempRisk: the thresholds taken inclusively
TempRiskInclusive(temp) ==
    IF temp >= 35 \/ temp <= -10 THEN 30
    ELSE IF temp >= 30 \/ temp <= 0 THEN 20
    ELSE 0

\* temp_risk of calculate_risk
TempRisk(temp) ==
    IF temp > 35 \/ temp < -10 THEN 30
    ELSE IF temp > 30 \/ temp < 0 THEN 20
    ELSE 0

\* wind_risk = min(wind_speed / 100, 0.4), in hundredths
WindRisk(wind_speed) == Min((wind_speed * 100) \div 100, 40)

\* rain_risk = min(rain / 50, 0.3), in hundredths
RainRisk(rain) == Min((rain * 100) \div 50, 30)

\* calculate_risk(weather_data): raised is TRUE when the call raises
\* (IndexError on [0] of an empty 'weather' list), else value is the score.
calculate_risk(weather_data) ==
    LET weather == Get(weather_data, "weather", <<EmptyDict>>)
    IN  IF Len(weather) = 0
        THEN [raised |-> TRUE, value |-> 0]
        ELSE LET main_condition == Get(weather[1], "main", "Clear")
                 weather_risk == Get(weather_risk_weights, main_condition, 10)
                 temp == Get(Get(weather_data, "main", EmptyDict), "temp", 0)
                 wind_speed == Get(Get(weather_data, "wind", EmptyDict), "speed", 0)
                 rain == Get(Get(weather_data, "rain", EmptyDict), "1h", 0)
                 total_risk == Min(95, 10 + weather_risk + TempRisk(temp)
                                        + WindRisk(wind_speed) + RainRisk(rain))
             IN  [raised |-> FALSE, value |-> total_risk]

\* ------------------------------------------- observations (scorer inputs)
Labels == {"Tornado", "Hurricane", "Thunderstorm", "Tropical Storm", "Rain",
           "Snow", "Extreme", "Drizzle", "Clouds", "Clear", "Mist"}
Temps == {-11, -10, -1, 0, 20, 30, 31, 32, 35, 36, 40}
Winds == {-50, 0, 5, 10, 40, 41, 200}
Rains == {-20, 0, 5, 15, 16, 100}

\* a 'weather' entry: an empty list, a list of one dict without 'main',
\* or a list of one dict with a condition label
WeatherLists == {<<>>, <<EmptyDict>>} \cup {<<"main" :> l>> : l \in Labels}

Observations ==
    {w @@ m @@ wi @@ r :
        w \in Opt("weather", WeatherLists),
        m \in Opt("main", {EmptyDict} \cup {"temp" :> t : t \in Temps}),
        wi \in Opt("wind", {EmptyDict} \cup {"speed" :> s : s \in Winds}),
        r \in Opt("rain", {EmptyDict} \cup {"1h" :> p : p \in Rains})}

\* ------------------------------------------------- DisasterResponseSystem
\* self.monitored_locations, in the source's order
AllLocations ==
    << [name |-> "New York",    lat |-> 407128, lon |-> -740060],
       [name |-> "Los Angeles", lat |-> 340522, lon |-> -1182437],
       [name |-> "Chicago",     lat |-> 418781, lon |-> -876298],
       [name |-> "Houston",     lat |-> 297604, lon |-> -953698],
       [name |-> "Phoenix",     lat |-> 334484, lon |-> -1120740],
       [name |-> "Miami",       lat |-> 257617, lon |-> -801918],
       [name |-> "Seattle",     lat |-> 476062, lon |-> -1223321],
       [name |-> "Denver",      lat |-> 397392, lon |-> -1049903],
       [name |-> "New Orleans", lat |-> 299511, lon |-> -900715],
       [name |-> "Kansas City", lat |-> 390997, lon |-> -945786] >>

monitored_locations == SubSeq(AllLocations, 1, NumLocations)

Locs == 1..NumLocations
Refreshes == 1..MaxRefresh

\* ---- what requests.get can do for one location
\* a complete observation, as the weather service documents it
FullObservation(label, temp, humidity, speed, rain1h) ==
    ("weather" :> <<"main" :> label>>)
    @@ ("main" :> (("temp" :> temp) @@ ("humidity" :> humidity)))
    @@ ("wind" :> ("speed" :> speed))
    @@ ("rain" :> ("1h" :> rain1h))

ClearDay == FullObservation("Clear", 20, 40, 5, 0)
NegativeWind == FullObservation("Clear", 20, 40, -50, 0)
NoConditions == ("weather" :> <<>>) @@ ("main" :> ("temp" :> 20))

\* error: requests.get raises; parses: response.json() returns body
ConnectionFailed == [error |-> TRUE, status_code |-> 0, parses |-> FALSE, body |-> EmptyDict]
Unauthorized == [error |-> FALSE, status_code |-> 401, parses |-> FALSE, body |-> EmptyDict]
BadBody == [error |-> FALSE, status_code |-> 200, parses |-> FALSE, body |-> EmptyDict]
Ok(o) == [error |-> FALSE, status_code |-> 200, parses |-> TRUE, body |-> o]

Responses == {ConnectionFailed, Unauthorized, BadBody,
              Ok(ClearDay), Ok(NegativeWind), Ok(NoConditions), Ok(EmptyDict)}

\* the line print() writes in the except branch
ErrorLine(location, e) == [location |-> location.name, error |-> e]

\* faulty variant of fetch_weather_data: the scorer called outside the try
\* block, so that its exception leaves the function
fetch_weather_data_uncaught(location, resp, ts) ==
    IF resp.error
    THEN [raised |-> FALSE, value |-> <<>>,
          printed |-> <<ErrorLine(location, "ConnectionError")>>]
    ELSE IF resp.status_code = 200
    THEN IF ~resp.parses
         THEN [raised |-> FALSE, value |-> <<>>,
               printed |-> <<ErrorLine(location, "JSONDecodeError")>>]
         ELSE LET scored == calculate_risk(resp.body)
              IN  IF scored.raised
                  THEN [raised |-> TRUE, value |-> <<>>, printed |-> <<>>]
                  ELSE [raised |-> FALSE,
                        value |-> << [location |-> location.name,
                                      latitude |-> location.lat,
                                      longitude |-> location.lon,
                                      weather_data |-> resp.body,
                                      risk_score |-> scored.value,
                                      timestamp |-> ts] >>,
                        printed |-> <<>>]
    ELSE [raised |-> FALSE, value |-> <<>>, printed |-> <<>>]

\* fetch_weather_data(location) when requests.get behaves as resp and
\* datetime.now() is ts.  value is <<>> for None and <<snapshot>> otherwise;
\* printed holds the lines written to stdout; raised is TRUE when an
\* exception leaves the function.
fetch_weather_data(location, resp, ts) ==
    IF resp.error
    THEN [raised |-> FALSE, value |-> <<>>,
          printed |-> <<ErrorLine(location, "ConnectionError")>>]
    ELSE IF resp.status_code = 200
    THEN IF ~resp.parses
         THEN [raised |-> FALSE, value |-> <<>>,
               printed |-> <<ErrorLine(location, "JSONDecodeError")>>]
         ELSE LET scored == calculate_risk(resp.body)
              IN  IF scored.raised
                  THEN [raised |-> FALSE, value |-> <<>>,
                        printed |-> <<ErrorLine(location, "IndexError")>>]
                  ELSE [raised |-> FALSE,
                        value |-> << [location |-> location.name,
                                      latitude |-> location.lat,
                                      longitude |-> location.lon,
                                      weather_data |-> resp.body,
                                      risk_score |-> scored.value,
                                      timestamp |-> ts] >>,
                        printed |-> <<>>]
    ELSE [raised |-> FALSE, value |-> <<>>, printed |-> <<>>]

\* a fetch that has not ended: no response yet, no result
NoResponse == [error |-> FALSE, status_code |-> 0, parses |-> FALSE, body |-> EmptyDict]
Pending == [state |-> "pending", response |-> NoResponse, raised |-> FALSE,
            value |-> <<>>]

\* get_risk_color
get_risk_color(risk_score) ==
    IF risk_score < 30 THEN "green"
    ELSE IF risk_score < 70 THEN "orange"
    ELSE "red"

\* list(d.values()) of a dict built from results in monitored order
RECURSIVE ValuesFrom(_, _)
ValuesFrom(d, i) ==
    IF i > NumLocations THEN <<>>
    ELSE LET n == monitored_locations[i].name
         IN  (IF n \in DOMAIN d THEN <<d[n]>> ELSE <<>>) \o ValuesFrom(d, i + 1)

Values(d) == ValuesFrom(d, 1)

VARIABLES
    pc,           \* per dashboard request: where its create_heatmap call is
    results,      \* per request and location: the fetch's result, or pending
    order,        \* per request: the locations in the order their fetches ended
    returned,     \* per request: what update_all_locations returned
    weather_data, \* drs.weather_data
    completed,    \* the requests whose update_all_locations ended, in that order
    log,          \* stdout: the bag of lines printed
    heatmap,      \* per request: the markers create_heatmap drew
    alerts,       \* the body of the last /api/alerts response
    obs, risk     \* the scorer's input and result when run on its own

vars == <<pc, results, order, returned, weather_data, completed, log,
          heatmap, alerts, obs, risk>>

NotScored == [called |-> FALSE, raised |-> FALSE, value |-> 0]
NotDrawn == [raised |-> FALSE, markers |-> <<>>]

\* ---- update_all_locations
AllFetched(r) == \A i \in Locs : results[r][i].state = "done"

\* faulty variant of MappedResults: the results gathered as the fetches
\* end (as_completed) instead of in the order of the inputs
CompletionOrderResults(r) == [k \in Locs |-> results[r][order[r][k]]]

\* list(executor.map(self.fetch_weather_data, self.monitored_locations)):
\* the results in the order of the inputs
MappedResults(r) == [i \in Locs |-> results[r][i]]

\* [r for r in results if r is not None]
RECURSIVE NotNone(_)
NotNone(rs) ==
    IF rs = <<>> THEN <<>>
    ELSE rs[1].value \o NotNone(Tail(rs))

\* {result["location"]: result for result in valid_results}
ByLocation(valid_results) ==
    [n \in {valid_results[k].location : k \in DOMAIN valid_results} |->
        LET last == CHOOSE k \in DOMAIN valid_results :
                        /\ valid_results[k].location = n
                        /\ \A j \in DOMAIN valid_results :
                              valid_results[j].location = n => j <= k
        IN  valid_results[last]]

\* faulty variant of StoredCollection: the new snapshots merged into the
\* previous collection (dict.update), so that stale entries survive
MergedCollection(previous, valid_results) ==
    ByLocation(valid_results) @@ previous

\* faulty variant of StoredCollection: a collection already stored is kept
FirstCollectionKept(previous, valid_results) ==
    IF previous = EmptyDict THEN ByLocation(valid_results) ELSE previous

\* self.weather_data = {...}: the collection that replaces the previous one
StoredCollection(previous, valid_results) == ByLocation(valid_results)

\* ---- create_heatmap, after the refresh: one CircleMarker per snapshot
HasPopupFields(w) ==
    /\ "main" \in DOMAIN w /\ "temp" \in DOMAIN w["main"]
    /\ "humidity" \in DOMAIN w["main"]
    /\ "weather" \in DOMAIN w /\ Len(w["weather"]) > 0
    /\ "main" \in DOMAIN w["weather"][1]
    /\ "wind" \in DOMAIN w /\ "speed" \in DOMAIN w["wind"]

Marker(location_data) ==
    [location |-> <<location_data.latitude, location_data.longitude>>,
     name |-> location_data.location,
     risk_score |-> location_data.risk_score,
     color |-> get_risk_color(location_data.risk_score)]

DrawMarkers(data) ==
    LET vs == Values(data)
    IN  IF \E k \in DOMAIN vs : ~HasPopupFields(vs[k].weather_data)
        THEN [raised |-> TRUE, markers |-> <<>>]
        ELSE [raised |-> FALSE, markers |-> [k \in DOMAIN vs |-> Marker(vs[k])]]

\* ------------------------------------------------------------------ actions
\* GET /: dashboard() calls create_heatmap(), which calls
\* update_all_locations(), which submits one fetch per location
Dashboard(r) ==
    /\ pc[r] = "idle"
    /\ IF r = 1 THEN TRUE ELSE pc[r - 1] # "idle"
    /\ pc' = [pc EXCEPT ![r] = "fetching"]
    /\ UNCHANGED <<results, order, returned, weather_data, completed, log,
                   heatmap, alerts, obs, risk>>

\* faulty variant of Fetch: each worker writes its snapshot into
\* self.weather_data as soon as it has it
FetchIncremental(r, i, resp) ==
    /\ pc[r] = "fetching"
    /\ results[r][i].state = "pending"
    /\ LET out == fetch_weather_data(monitored_locations[i], resp,
                                     <<r, Len(order[r]) + 1>>)
       IN  /\ results' = [results EXCEPT ![r][i] =
                            [state |-> "done", response |-> resp,
                             raised |-> out.raised, value |-> out.value]]
           /\ log' = log (+) SetToBag({out.printed[k] : k \in DOMAIN out.printed})
           /\ weather_data' = ByLocation(out.value) @@ weather_data
    /\ order' = [order EXCEPT ![r] = Append(@, i)]
    /\ UNCHANGED <<pc, returned, completed, heatmap, alerts, obs, risk>>

\* one worker's fetch_weather_data(location) runs to its end
\* (datetime.now() is the logical instant <<request, position among the
\* request's fetches in the order they end>>, distinct for every fetch)
Fetch(r, i, resp) ==
    /\ pc[r] = "fetching"
    /\ results[r][i].state = "pending"
    /\ LET out == fetch_weather_data(monitored_locations[i], resp,
                                     <<r, Len(order[r]) + 1>>)
       IN  /\ results' = [results EXCEPT ![r][i] =
                            [state |-> "done", response |-> resp,
                             raised |-> out.raised, value |-> out.value]]
           /\ log' = log (+) SetToBag({out.printed[k] : k \in DOMAIN out.printed})
    /\ order' = [order EXCEPT ![r] = Append(@, i)]
    /\ UNCHANGED <<pc, returned, weather_data, completed, heatmap, alerts,
                   obs, risk>>

\* the join of update_all_locations, then its lines 110-112: an exception
\* of a worker is re-raised by list(executor.map(...)); otherwise the
\* valid results are kept, self.weather_data is rebound and the list returned
UpdateAllLocationsReturn(r) ==
    /\ pc[r] = "fetching"
    /\ AllFetched(r)
    /\ IF \E i \in Locs : MappedResults(r)[i].raised
       THEN /\ pc' = [pc EXCEPT ![r] = "refresh_raised"]
            /\ UNCHANGED <<returned, weather_data, completed>>
       ELSE LET valid_results == NotNone(MappedResults(r))
            IN  /\ weather_data' = StoredCollection(weather_data, valid_results)
                /\ returned' = [returned EXCEPT ![r] = valid_results]
                /\ completed' = Append(completed, r)
                /\ pc' = [pc EXCEPT ![r] = "drawing"]
    /\ UNCHANGED <<results, order, log, heatmap, alerts, obs, risk>>

\* the rest of create_heatmap: the markers of the stored snapshots
DrawHeatmap(r) ==
    /\ pc[r] = "drawing"
    /\ heatmap' = [heatmap EXCEPT ![r] = DrawMarkers(weather_data)]
    /\ pc' = [pc EXCEPT ![r] = IF heatmap'[r].raised THEN "render_raised" ELSE "done"]
    /\ UNCHANGED <<results, order, returned, weather_data, completed, log,
                   alerts, obs, risk>>

\* GET /api/alerts: jsonify(list(drs.weather_data.values()))
GetAlerts ==
    /\ alerts' = Values(weather_data)
    /\ UNCHANGED <<pc, results, order, returned, weather_data, completed, log,
                   heatmap, obs, risk>>

Init ==
    /\ pc = [r \in Refreshes |-> "idle"]
    /\ results = [r \in Refreshes |-> [i \in Locs |-> Pending]]
    /\ order = [r \in Refreshes |-> <<>>]
    /\ returned = [r \in Refreshes |-> <<>>]
    /\ weather_data = EmptyDict
    /\ completed = <<>>
    /\ log = EmptyBag
    /\ heatmap = [r \in Refreshes |-> NotDrawn]
    /\ alerts = <<>>
    /\ obs = EmptyDict
    /\ risk = NotScored

Next ==
    \/ \E r \in Refreshes : Dashboard(r)
    \/ \E r \in Refreshes, i \in Locs, resp \in Responses : Fetch(r, i, resp)
    \/ \E r \in Refreshes : UpdateAllLocationsReturn(r)
    \/ \E r \in Refreshes : DrawHeatmap(r)
    \/ GetAlerts

Spec == Init /\ [][Next]_vars

\* ------------------------------------------------- the scorer on its own
\* one call of calculate_risk on the current observation
CalculateRisk ==
    /\ ~risk.called
    /\ risk' = [called |-> TRUE] @@ calculate_risk(obs)
    /\ UNCHANGED <<pc, results, order, returned, weather_data, completed, log,
                   heatmap, alerts, obs>>

ScoreInit ==
    /\ Init!1 /\ Init!2 /\ Init!3 /\ Init!4 /\ Init!5 /\ Init!6 /\ Init!7
    /\ Init!8 /\ Init!9
    /\ obs \in Observations
    /\ risk = NotScored

ScoreNext == CalculateRisk

ScoreSpec == ScoreInit /\ [][ScoreNext]_vars

\* ==================================================================
\* Properties
\* ==================================================================
\* ---- vocabulary of the properties
Returned(r) == pc[r] \in {"drawing", "done", "render_raised"}

NameOf(i) == monitored_locations[i].name
IndexOf(n) == CHOOSE i \in Locs : NameOf(i) = n

\* the four ways a fetch yields no record: network error, non-200 status,
\* body that cannot be parsed, observation on which the scorer raises
FetchFails(resp) ==
    \/ resp.error
    \/ resp.status_code # 200
    \/ ~resp.parses
    \/ calculate_risk(resp.body).raised

Failed(r) ==
    {i \in Locs : results[r][i].state = "done" /\ FetchFails(results[r][i].response)}

SucceededNames(r) == {NameOf(i) : i \in Locs \ Failed(r)}

\* the result set of pass r: the snapshot of every location that has one
PassResult(r) ==
    [n \in {NameOf(i) : i \in {j \in Locs : results[r][j].value # <<>>}} |->
        results[r][IndexOf(n)].value[1]]

CompletePasses == {PassResult(r) : r \in {q \in Refreshes : AllFetched(q)}}

LastCompleted == completed[Len(completed)]

\* the documented fields of an observation, with their documented defaults
ConditionOf(o) ==
    IF "weather" \in DOMAIN o /\ Len(o["weather"]) > 0
       /\ "main" \in DOMAIN o["weather"][1]
    THEN o["weather"][1]["main"] ELSE "Clear"
TemperatureOf(o) ==
    IF "main" \in DOMAIN o /\ "temp" \in DOMAIN o["main"] THEN o["main"]["temp"] ELSE 0
WindSpeedOf(o) ==
    IF "wind" \in DOMAIN o /\ "speed" \in DOMAIN o["wind"] THEN o["wind"]["speed"] ELSE 0
PrecipitationOf(o) ==
    IF "rain" \in DOMAIN o /\ "1h" \in DOMAIN o["rain"] THEN o["rain"]["1h"] ELSE 0

\* min(0.95, 0.1 + condition weight + temperature term + min(wind/100, 0.4)
\*           + min(precipitation/50, 0.3)), in hundredths
DocumentedScore(o) ==
    LET weight == IF ConditionOf(o) \in DOMAIN weather_risk_weights
                  THEN weather_risk_weights[ConditionOf(o)] ELSE 10
        t == TemperatureOf(o)
        term == IF t > 35 \/ t < -10 THEN 30
                ELSE IF t > 30 \/ t < 0 THEN 20 ELSE 0
    IN  Min(95, 10 + weight + term + Min(WindSpeedOf(o), 40)
                 + Min(2 * PrecipitationOf(o), 30))

Observation(label, temp, speed, rain1h) ==
    ("weather" :> <<"main" :> label>>) @@ ("main" :> ("temp" :> temp))
    @@ ("wind" :> ("speed" :> speed)) @@ ("rain" :> ("1h" :> rain1h))

\* C1: every snapshot returned by update_all_locations or held in
\* weather_data has a risk_score in [0, 0.95], whatever the weather service
\* returned.
C1_RiskInRange ==
    /\ \A n \in DOMAIN weather_data :
          weather_data[n].risk_score >= 0 /\ weather_data[n].risk_score <= 95
    /\ \A r \in Refreshes : \A k \in DOMAIN returned[r] :
          returned[r][k].risk_score >= 0 /\ returned[r][k].risk_score <= 95

\* C2: a refresh over N locations in which K fetches fail returns N-K
\* snapshots, and weather_data as that refresh leaves it has exactly the N-K
\* names that succeeded in it: a location that had a snapshot from an
\* earlier refresh and failed in this one is absent.
C2_OnlySucceededRemain ==
    \A r \in Refreshes :
        Returned(r) =>
            /\ Len(returned[r]) = NumLocations - Cardinality(Failed(r))
            /\ r = LastCompleted =>
                  /\ DOMAIN weather_data = SucceededNames(r)
                  /\ Cardinality(DOMAIN weather_data)
                        = NumLocations - Cardinality(Failed(r))

C2_Witness ==
    /\ completed = <<1, 2>>
    /\ NameOf(1) \in DOMAIN PassResult(1)
    /\ Failed(2) = {1}
    /\ Len(returned[2]) = NumLocations - 1
    /\ NameOf(1) \notin DOMAIN weather_data

\* C3: no fetch failure propagates to the caller of update_all_locations:
\* whatever the fetches did, the refresh does not raise, and it returns the
\* snapshots of the locations that responded, possibly none.
C3_NoFailurePropagates ==
    \A r \in Refreshes :
        /\ pc[r] # "refresh_raised"
        /\ Returned(r) =>
              {returned[r][k].location : k \in DOMAIN returned[r]}
                  = SucceededNames(r)

C3_Witness ==
    /\ Returned(1) /\ Returned(2)
    /\ results[1][1].response = ConnectionFailed
    /\ results[1][2].response = Unauthorized
    /\ results[2][1].response = BadBody
    /\ results[2][2].response = Ok(NoConditions)
    /\ returned[1] = <<>> /\ returned[2] = <<>>

\* C4: weather_data is the initial empty mapping or the complete result set
\* of one pass all of whose fetches had ended, and so is what every reader
\* (get_alerts, create_heatmap) has observed: never a mix of two passes,
\* never part of a pass.
C4_WholePassOnly ==
    /\ weather_data \in {EmptyDict} \cup CompletePasses
    /\ alerts \in {<<>>} \cup {Values(p) : p \in CompletePasses}
    /\ \A r \in Refreshes :
          pc[r] \in {"done", "render_raised"} =>
              heatmap[r] \in {DrawMarkers(p) : p \in CompletePasses}

C4_Witness ==
    /\ completed = <<1>>
    /\ pc[2] = "fetching"
    /\ results[2][1].value # <<>>
    /\ results[2][2].state = "pending"
    /\ weather_data = PassResult(1)
    /\ Len(alerts) = NumLocations
    /\ alerts = Values(weather_data)

\* C5: calculate_risk is total: on an observation with a missing or
\* malformed field it does not raise and returns the score computed with
\* the documented defaults.
C5_ScorerTotal ==
    risk.called => ~risk.raised /\ risk.value = DocumentedScore(obs)

C7_EveryTriggerRefreshes ==
    [][(GetAlerts \/ \E r \in Refreshes : Dashboard(r))
          => \E r \in Refreshes : pc[r] = "idle" /\ pc'[r] = "fetching"]_vars

\* C8: once every refresh that started has completed, weather_data is the
\* result set of the refresh that completed last, whichever started first.
C8_LastCompletedWins ==
    (completed # <<>> /\ \A r \in Refreshes : pc[r] # "fetching")
        => weather_data = PassResult(LastCompleted)

C8_Witness ==
    /\ completed = <<2, 1>>
    /\ \A r \in Refreshes : pc[r] # "fetching"
    /\ DOMAIN PassResult(1) = {NameOf(i) : i \in Locs}
    /\ DOMAIN PassResult(2) = {NameOf(i) : i \in Locs}
    /\ weather_data = PassResult(1)
    /\ weather_data # PassResult(2)

\* C9: every failed fetch is logged: for a network error, a non-200 status
\* and a parse error alike, a line naming the location is printed.
C9_EveryFailureLogged ==
    \A i \in Locs :
        LET lines == {l \in BagToSet(log) : l.location = NameOf(i)}
            printed == BagCardinality([l \in lines |-> CopiesIn(l, log)])
            failures == {r \in Refreshes :
                            /\ results[r][i].state = "done"
                            /\ \/ results[r][i].response.error
                               \/ results[r][i].response.status_code # 200
                               \/ ~results[r][i].response.parses}
        IN  printed >= Cardinality(failures)

\* C10: update_all_locations returns the surviving snapshots in the order
\* of monitored_locations, whatever order the fetches ended in.
C10_MonitoredOrder ==
    \A r \in Refreshes :
        Returned(r) =>
            /\ \A j, k \in DOMAIN returned[r] :
                  j < k => IndexOf(returned[r][j].location)
                              < IndexOf(returned[r][k].location)
            /\ \A k \in DOMAIN returned[r] :
                  returned[r][k] = results[r][IndexOf(returned[r][k].location)].value[1]
            /\ Len(returned[r]) = Cardinality({i \in Locs : results[r][i].value # <<>>})

C10_Witness ==
    /\ Returned(1)
    /\ order[1][1] = NumLocations
    /\ Len(returned[1]) = NumLocations
    /\ returned[1][1].location = NameOf(1)
====
